---- MODULE Spec2Model ----
(***************************************************************************)
(* Model of compressembed: lib.Compress / lib.Decompress (zlib with a      *)
(* preset dictionary), lib.KeyGen, lib.StrGen, lib.IsValidVariableName and *)
(* the lib.Run pipeline.                                                   *)
(*                                                                         *)
(* Strings and byte slices are sequences of byte values (0..255); a Go     *)
(* nil slice and an empty slice are both the empty sequence.               *)
(***************************************************************************)
EXTENDS Integers, Sequences, FiniteSets, TLC

\* ------------------------------------------------------------------------
\* Bounds of the model
\* ------------------------------------------------------------------------

\* longest payload handed to Compress
MaxPayload == 6
\* flate's minMatchLength (4 in compress/flate), scaled to the payloads
MinMatchLength == 2
\* flate's maxMatchLength (258 in compress/flate), scaled to the payloads
MaxMatchLength == 3
\* flate's maxFlateBlockTokens (16384 in compress/flate), scaled
BlockTokens == 2

\* ------------------------------------------------------------------------
\* Byte helpers
\* ------------------------------------------------------------------------

Max(S) == CHOOSE x \in S : \A y \in S : y <= x
Min(S) == CHOOSE x \in S : \A y \in S : x <= y

\* A uint32 is kept as its two 16-bit halves <<hi, lo>>.

\* n as four bytes, most significant first (binary.BigEndian.PutUint32)
BE32(n) == << n[1] \div 256, n[1] % 256, n[2] \div 256, n[2] % 256 >>

\* four bytes, most significant first, as a uint32
FromBE32(s) == << s[1] * 256 + s[2], s[3] * 256 + s[4] >>

\* hash/adler32: a = 1 + sum of bytes, b = sum of the a's, both mod 65521;
\* the checksum is b<<16 | a
RECURSIVE AdlerStep(_, _, _, _)
AdlerStep(s, i, a, b) ==
    IF i > Len(s) THEN <<b, a>>
    ELSE LET a2 == (a + s[i]) % 65521
         IN  AdlerStep(s, i + 1, a2, (b + a2) % 65521)

Adler32(s) == AdlerStep(s, 1, 1, 0)

\* ------------------------------------------------------------------------
\* compress/flate at BestCompression: LZ77 tokens over the window
\* dict ++ data.  The Huffman-coded blocks of the real stream are written
\* here as bytes: a block is <<final, n>> followed by n tokens, a literal
\* is <<0, byte>> and a match is <<1, length, distance>>.
\* ------------------------------------------------------------------------

RECURSIVE MatchLen(_, _, _, _)
MatchLen(w, pos, dist, l) ==
    IF l < MaxMatchLength /\ pos + l <= Len(w) /\ w[pos + l] = w[pos + l - dist]
    THEN MatchLen(w, pos, dist, l + 1)
    ELSE l

BestLen(w, pos) ==
    IF pos = 1 THEN 0 ELSE Max({MatchLen(w, pos, d, 0) : d \in 1..(pos - 1)})

BestDist(w, pos) ==
    Min({d \in 1..(pos - 1) : MatchLen(w, pos, d, 0) = BestLen(w, pos)})

\* the tokens of w from position pos on; pos is where the token starts
RECURSIVE Tokenize(_, _)
Tokenize(w, pos) ==
    IF pos > Len(w) THEN <<>>
    ELSE LET l == BestLen(w, pos)
         IN  IF l >= MinMatchLength
             THEN <<[lit |-> FALSE, a |-> l, b |-> BestDist(w, pos), pos |-> pos]>>
                      \o Tokenize(w, pos + l)
             ELSE <<[lit |-> TRUE, a |-> w[pos], b |-> 0, pos |-> pos]>>
                      \o Tokenize(w, pos + 1)

TokenBytes(t) == IF t.lit THEN <<0, t.a>> ELSE <<1, t.a, t.b>>

RECURSIVE TokensBytes(_)
TokensBytes(ts) ==
    IF ts = <<>> THEN <<>> ELSE TokenBytes(Head(ts)) \o TokensBytes(Tail(ts))

Block(final, ts) == <<IF final THEN 1 ELSE 0, Len(ts)>> \o TokensBytes(ts)

\* deflate() stops while fewer than minMatchLength+maxMatchLength bytes of
\* lookahead remain and the writer is not flushing: the tokens it has
\* produced when Write returns
ReadyCount(ts, wlen) ==
    Cardinality({i \in 1..Len(ts) :
                    wlen - ts[i].pos + 1 >= MinMatchLength + MaxMatchLength})

\* tokens are handed to the block writer BlockTokens at a time
RECURSIVE FullBlocks(_, _)
FullBlocks(ts, n) ==
    IF n < BlockTokens THEN <<>>
    ELSE Block(FALSE, SubSeq(ts, 1, BlockTokens))
             \o FullBlocks(SubSeq(ts, BlockTokens + 1, Len(ts)), n - BlockTokens)

\* the tokens still held by the compressor when Write returns
HeldTokens(ts, n) == SubSeq(ts, (n \div BlockTokens) * BlockTokens + 1, Len(ts))

\* ------------------------------------------------------------------------
\* compress/zlib writer
\* ------------------------------------------------------------------------

BestCompression == 9

\* zlib.Writer.writeHeader: CMF 0x78, FLG with the level bits, FDICT and
\* the check bits, then the Adler-32 of the dictionary
ZlibHeader(level, dict) ==
    LET lvl  == IF level \in {7, 8, 9} THEN 3
                ELSE IF level \in {-1, 6} THEN 2
                ELSE IF level \in {2, 3, 4, 5} THEN 1 ELSE 0
        flg0 == lvl * 64 + 32
        flg  == flg0 + (31 - ((120 * 256 + flg0) % 31))
    IN  <<120, flg>> \o BE32(Adler32(dict))

\* zlib.NewWriterLevelDict: fails only on a level outside -2..9
NewWriterLevelDict(level, dict) ==
    [err |-> (level < -2 \/ level > 9), level |-> level, dict |-> dict,
     wroteHeader |-> FALSE, data |-> <<>>, buf |-> <<>>]

\* zlib.Writer.Write: the header goes out on the first call; the data goes
\* into the compressor, which emits only the blocks it has filled
WriterWrite(w, p) ==
    LET hdr == IF w.wroteHeader THEN <<>> ELSE ZlibHeader(w.level, w.dict)
        win == w.dict \o w.data \o p
        ts  == Tokenize(win, Len(w.dict) + 1)
        n   == ReadyCount(ts, Len(win))
    IN  [w EXCEPT !.wroteHeader = TRUE,
                  !.data = w.data \o p,
                  !.buf = w.buf \o hdr \o
                          (IF p = <<>> THEN <<>> ELSE FullBlocks(ts, n))]

\* zlib.Writer.Close: the held tokens as the final block, then the Adler-32
\* of the data
WriterClose(w) ==
    LET hdr == IF w.wroteHeader THEN <<>> ELSE ZlibHeader(w.level, w.dict)
        win == w.dict \o w.data
        ts  == Tokenize(win, Len(w.dict) + 1)
        n   == IF w.data = <<>> THEN 0 ELSE ReadyCount(ts, Len(win))
    IN  [w EXCEPT !.wroteHeader = TRUE,
                  !.buf = w.buf \o hdr \o Block(TRUE, HeldTokens(ts, n))
                              \o BE32(Adler32(w.data))]

\* The writer of Compress after "defer w.Close()" has run
ClosedWriter(data, key) ==
    WriterClose(WriterWrite(NewWriterLevelDict(BestCompression, key), data))

\* Compress with w.Close() called before buf.Bytes() is taken
Compress_CloseFirst(data, key) ==
    LET w == NewWriterLevelDict(BestCompression, key)
    IN  IF w.err THEN <<>> ELSE WriterClose(WriterWrite(w, data)).buf

\* lib.Compress: nil when the writer cannot be made; otherwise the bytes
\* of buf at the return statement, which is evaluated before the deferred
\* w.Close() runs
Compress(data, key) ==
    LET w == NewWriterLevelDict(BestCompression, key)
    IN  IF w.err THEN <<>> ELSE WriterWrite(w, data).buf

\* ------------------------------------------------------------------------
\* compress/zlib reader
\* ------------------------------------------------------------------------

\* zlib.NewReaderDict (reader.Reset): header check, dictionary id check
NewReaderDict(data, dict) ==
    IF Len(data) < 2 THEN [err |-> TRUE, body |-> <<>>, dict |-> <<>>]
    ELSE LET h == data[1] * 256 + data[2]
         IN  IF data[1] % 16 # 8 \/ data[1] \div 16 > 7 \/ h % 31 # 0
             THEN [err |-> TRUE, body |-> <<>>, dict |-> <<>>]
             ELSE IF (data[2] \div 32) % 2 = 1
             THEN IF Len(data) < 6
                  THEN [err |-> TRUE, body |-> <<>>, dict |-> <<>>]
                  ELSE IF FromBE32(SubSeq(data, 3, 6)) # Adler32(dict)
                  THEN [err |-> TRUE, body |-> <<>>, dict |-> <<>>]
                  ELSE [err |-> FALSE, body |-> SubSeq(data, 7, Len(data)),
                        dict |-> dict]
             ELSE [err |-> FALSE, body |-> SubSeq(data, 3, Len(data)),
                   dict |-> <<>>]

\* copy l bytes from dist back in hist, byte by byte (the copy may overlap)
RECURSIVE CopyMatch(_, _, _)
CopyMatch(hist, l, dist) ==
    IF l = 0 THEN hist
    ELSE CopyMatch(Append(hist, hist[Len(hist) + 1 - dist]), l - 1, dist)

\* flate reader: decode s from index i on; n tokens are left in the current
\* block (n = -1: a block header is next).  hist is dictionary ++ output.
\* The result is hist when the stream ends, is cut short or is corrupt:
\* what was decoded before the error has already been delivered.
RECURSIVE Inflate(_, _, _, _, _)
Inflate(s, i, n, final, hist) ==
    IF n = -1
    THEN IF final \/ i + 1 > Len(s) \/ s[i] \notin {0, 1} THEN hist
         ELSE Inflate(s, i + 2, s[i + 1], s[i] = 1, hist)
    ELSE IF n = 0 THEN Inflate(s, i, -1, final, hist)
    ELSE IF i > Len(s) THEN hist
    ELSE IF s[i] = 0
         THEN IF i + 1 > Len(s) THEN hist
              ELSE Inflate(s, i + 2, n - 1, final, Append(hist, s[i + 1]))
    ELSE IF s[i] = 1
         THEN IF i + 2 > Len(s) \/ s[i + 2] < 1 \/ s[i + 2] > Len(hist) THEN hist
              ELSE Inflate(s, i + 3, n - 1, final,
                           CopyMatch(hist, s[i + 1], s[i + 2]))
    ELSE hist

\* lib.Decompress: nil when the reader cannot be made; otherwise whatever
\* io.Copy delivered, its error ignored
Decompress(data, key) ==
    LET r == NewReaderDict(data, key)
    IN  IF r.err THEN <<>>
        ELSE LET hist == Inflate(r.body, 1, -1, FALSE, r.dict)
             IN  SubSeq(hist, Len(r.dict) + 1, Len(hist))

\* ------------------------------------------------------------------------
\* encoding/base64, RawStdEncoding (standard alphabet, no padding)
\* ------------------------------------------------------------------------

\* the character of a 6-bit value: A-Z a-z 0-9 + /
B64Char(v) ==
    IF v < 26 THEN 65 + v
    ELSE IF v < 52 THEN 97 + (v - 26)
    ELSE IF v < 62 THEN 48 + (v - 52)
    ELSE IF v = 62 THEN 43 ELSE 47

\* the 6-bit value of a character, -1 when it is not in the alphabet
B64Val(c) ==
    IF c \in 65..90 THEN c - 65
    ELSE IF c \in 97..122 THEN c - 97 + 26
    ELSE IF c \in 48..57 THEN c - 48 + 52
    ELSE IF c = 43 THEN 62
    ELSE IF c = 47 THEN 63 ELSE -1

\* Encoding.EncodeToString; pad is TRUE for StdEncoding, FALSE for
\* RawStdEncoding
RECURSIVE B64Encode(_, _)
B64Encode(s, pad) ==
    IF Len(s) = 0 THEN <<>>
    ELSE IF Len(s) = 1
    THEN <<B64Char(s[1] \div 4), B64Char((s[1] % 4) * 16)>>
             \o (IF pad THEN <<61, 61>> ELSE <<>>)
    ELSE IF Len(s) = 2
    THEN <<B64Char(s[1] \div 4), B64Char((s[1] % 4) * 16 + s[2] \div 16),
           B64Char((s[2] % 16) * 4)>> \o (IF pad THEN <<61>> ELSE <<>>)
    ELSE <<B64Char(s[1] \div 4), B64Char((s[1] % 4) * 16 + s[2] \div 16),
           B64Char((s[2] % 16) * 4 + s[3] \div 64), B64Char(s[3] % 64)>>
             \o B64Encode(SubSeq(s, 4, Len(s)), pad)

\* the bytes of a sequence of 6-bit values; a last group of two or three
\* values gives one or two bytes, its spare bits dropped
RECURSIVE B64Quanta(_)
B64Quanta(v) ==
    IF Len(v) < 2 THEN <<>>
    ELSE IF Len(v) = 2 THEN <<v[1] * 4 + v[2] \div 16>>
    ELSE IF Len(v) = 3
    THEN <<v[1] * 4 + v[2] \div 16, (v[2] % 16) * 16 + v[3] \div 4>>
    ELSE <<v[1] * 4 + v[2] \div 16, (v[2] % 16) * 16 + v[3] \div 4,
           (v[3] % 4) * 64 + v[4]>> \o B64Quanta(SubSeq(v, 5, Len(v)))

\* RawStdEncoding.DecodeString: \r and \n are skipped; any other character
\* outside the alphabet ('=' included) and a lone last character are errors
DecodeString(s) ==
    LET t == SelectSeq(s, LAMBDA c : c \notin {10, 13})
    IN  IF (\E i \in 1..Len(t) : B64Val(t[i]) = -1) \/ Len(t) % 4 = 1
        THEN [err |-> TRUE, bytes |-> <<>>]
        ELSE [err |-> FALSE, bytes |-> B64Quanta([i \in 1..Len(t) |-> B64Val(t[i])])]

\* ------------------------------------------------------------------------
\* lib.KeyGen
\* ------------------------------------------------------------------------

KeyLen == 32

\* KeyGen with StdEncoding (padded) in place of RawStdEncoding
KeyGen_Padded(rnd) == B64Encode(rnd, TRUE)

\* KeyGen with rnd the KeyLen bytes crypto/rand put into key
KeyGen(rnd) == B64Encode(rnd, FALSE)

\* ------------------------------------------------------------------------
\* lib.StrGen, lib.IsValidVariableName
\* ------------------------------------------------------------------------

\* "aAbBcC...zZ_0123456789", 1-based
Charset ==
    [i \in 1..63 |->
        IF i <= 52 THEN (IF i % 2 = 1 THEN 97 + (i - 1) \div 2 ELSE 65 + (i - 2) \div 2)
        ELSE IF i = 53 THEN 95
        ELSE 48 + (i - 54)]

IsDigit(c) == c \in 48..57
IsLetter(c) == c \in 65..90 \/ c \in 97..122

\* strconv.Atoi fails (err != nil) on s: s is not an optional sign and
\* then one or more decimal digits
AtoiFails(s) ==
    LET d == IF Len(s) > 0 /\ s[1] \in {43, 45} THEN Tail(s) ELSE s
    IN  Len(d) = 0 \/ \E i \in 1..Len(d) : ~IsDigit(d[i])

\* StrGen with the inverted test (err == nil)
StrGenReturns_Inverted(b) == ~AtoiFails(<<b[1]>>)

\* StrGen that keeps b only when it starts with a letter
StrGenReturns_LetterOnly(b) == IsLetter(b[1])

\* StrGen returns b when Atoi of its first character fails, and calls
\* itself again otherwise
StrGenReturns(b) == AtoiFails(<<b[1]>>)

\* regexp ^[a-zA-Z_][a-zA-Z0-9_]*$
IsValidVariableName(s) ==
    /\ Len(s) >= 1
    /\ (IsLetter(s[1]) \/ s[1] = 95)
    /\ \A i \in 2..Len(s) : IsLetter(s[i]) \/ IsDigit(s[i]) \/ s[i] = 95

\* ------------------------------------------------------------------------
\* Inputs of the model
\* ------------------------------------------------------------------------

\* longest string asked of StrGen
MaxStrLen == 3

\* values crypto/rand may put into the key: two keys with the same
\* Adler-32, a key sharing no byte with the payloads, and the all-zero key
\* left by a failed read
KeyA == [i \in 1..KeyLen |-> IF i \in {1, 3} THEN 1 ELSE 0]
KeyB == [i \in 1..KeyLen |-> IF i = 2 THEN 2 ELSE 0]
KeyC == [i \in 1..KeyLen |-> (i * 37 + 11) % 256]
KeyZ == [i \in 1..KeyLen |-> 0]
RandomKeys == {KeyA, KeyB, KeyC, KeyZ}

\* Key fields that do not come from KeyGen: "!!!", "A", a padded
\* encoding, "QUJD" and ""
OtherKeys == {<<33, 33, 33>>, <<65>>, B64Encode(KeyC, TRUE), <<81, 85, 74, 68>>, <<>>}

\* Var fields: "", "1bad", "a-b", "p_1", "_"
VarSamples == {<<>>, <<49, 98, 97, 100>>, <<97, 45, 98>>, <<112, 95, 49>>, <<95>>}

\* all byte sequences over {0, 1} of length at most n
RECURSIVE SeqsUpTo(_)
SeqsUpTo(n) ==
    IF n = 0 THEN {<<>>}
    ELSE LET S == SeqsUpTo(n - 1)
         IN  S \cup {Append(x, b) : x \in {y \in S : Len(y) = n - 1}, b \in {0, 1}}

Payloads == SeqsUpTo(MaxPayload)

\* contents of the input file
InputSamples == {<<>>, <<1, 0, 1>>, <<1, 1, 1, 1, 1, 1>>}

\* a path with no file
NoFile == <<-1>>
\* the contents of a file that is there before the run
OldFile == <<7, 7>>

Paths == {"", "in.bin", "resource.dat", "compressed.go"}

\* indices rand.Intn may give into the charset: a Z _ 9
SampleIdx == {1, 52, 53, 63}

\* "main"
PkgMain == <<109, 97, 105, 110>>
\* a value of StrGen(6): "aB_0zZ"
FuncSample == <<97, 66, 95, 48, 122, 90>>

\* ------------------------------------------------------------------------
\* State
\* ------------------------------------------------------------------------

VARIABLES
    pc,        \* position of main / Run
    cfg,       \* the Config
    fs,        \* the file system: path -> contents or NoFile
    fs0,       \* the file system when Run was entered
    data,      \* Run's data
    key,       \* Run's key
    com,       \* the value of Compress(data, key) in Run
    trace,     \* the steps of Run taken so far
    failed,    \* the first step of Run that failed, "" if none
    abortMsg,  \* the message of log.Fatal, "" if none
    rnd,       \* the bytes KeyGen drew for cfg.Key, <<>> if it drew none
    cpc,       \* position of a caller of Compress and Decompress
    P,         \* its payload
    K1,        \* its key for Compress
    K2,        \* its key for Decompress
    ccom,      \* the value Compress returned to it
    wbuf,      \* the bytes of Compress's buf after its deferred Close
    store,     \* the value Decompress returned to it
    sgPc,      \* position of a caller of StrGen
    sgLen,     \* the length it asks for
    sgBuf,     \* b of the last activation of StrGen
    sgRet,     \* the value StrGen returned
    sgDropped  \* whether an activation of StrGen dropped its sample

runVars == <<pc, cfg, fs, fs0, data, key, com, trace, failed, abortMsg, rnd>>
codecVars == <<cpc, P, K1, K2, ccom, wbuf, store>>
sgVars == <<sgPc, sgLen, sgBuf, sgRet, sgDropped>>
vars == <<runVars, codecVars, sgVars>>

NoCfg == [Pkg |-> <<>>, Func |-> <<>>, Key |-> <<>>, Input |-> "",
          Output |-> "", Var |-> <<>>, Src |-> ""]

RunIdle ==
    /\ pc = "idle" /\ cfg = NoCfg /\ fs = [p \in Paths |-> NoFile] /\ fs0 = fs
    /\ data = <<>> /\ key = <<>> /\ com = <<>> /\ trace = <<>>
    /\ failed = "" /\ abortMsg = "" /\ rnd = <<>>

CodecIdle ==
    /\ cpc = "idle" /\ P = <<>> /\ K1 = <<>> /\ K2 = <<>>
    /\ ccom = <<>> /\ wbuf = <<>> /\ store = <<>>

StrGenIdle ==
    /\ sgPc = "idle" /\ sgLen = 0 /\ sgBuf = <<>> /\ sgRet = <<>>
    /\ sgDropped = FALSE

\* ------------------------------------------------------------------------
\* A caller of Compress and Decompress (as TestTool)
\* ------------------------------------------------------------------------

CodecKeys == {KeyA, KeyB, KeyC}

CodecInit ==
    /\ RunIdle /\ StrGenIdle
    /\ cpc = "start"
    /\ P \in Payloads /\ K1 \in CodecKeys /\ K2 \in CodecKeys
    /\ ccom = <<>> /\ wbuf = <<>> /\ store = <<>>

\* com := Compress(P, K1); the deferred Close writes to buf after the
\* returned value has been taken
CallCompress ==
    /\ cpc = "start"
    /\ ccom' = Compress(P, K1)
    /\ wbuf' = ClosedWriter(P, K1).buf
    /\ cpc' = "compressed"
    /\ UNCHANGED <<P, K1, K2, store, runVars, sgVars>>

\* store := Decompress(com, K2)
CallDecompress ==
    /\ cpc = "compressed"
    /\ store' = Decompress(ccom, K2)
    /\ cpc' = "decompressed"
    /\ UNCHANGED <<P, K1, K2, ccom, wbuf, runVars, sgVars>>

CodecNext == CallCompress \/ CallDecompress

SpecCodec == CodecInit /\ [][CodecNext]_vars

\* ------------------------------------------------------------------------
\* A caller of StrGen
\* ------------------------------------------------------------------------

SgInit ==
    /\ RunIdle /\ CodecIdle
    /\ sgPc = "call"
    /\ sgLen \in -1..MaxStrLen
    /\ sgBuf = <<>> /\ sgRet = <<>>
    /\ sgDropped = FALSE

\* One activation of StrGen(sgLen): make panics on a negative length and
\* b[0] panics on an empty b; otherwise b is sampled and either returned or
\* dropped for a new activation
StrGenCall ==
    /\ sgPc = "call"
    /\ IF sgLen < 0
       THEN sgPc' = "panicked" /\ UNCHANGED <<sgBuf, sgRet, sgDropped>>
       ELSE \E b \in [1..sgLen -> {Charset[i] : i \in SampleIdx}] :
              /\ sgBuf' = b
              /\ IF sgLen = 0
                 THEN sgPc' = "panicked" /\ UNCHANGED <<sgRet, sgDropped>>
                 ELSE IF StrGenReturns(b)
                 THEN sgPc' = "returned" /\ sgRet' = b /\ UNCHANGED sgDropped
                 ELSE sgPc' = "call" /\ sgDropped' = TRUE /\ UNCHANGED sgRet
    /\ UNCHANGED <<sgLen, runVars, codecVars>>

SgNext == StrGenCall

SpecStrGen == SgInit /\ [][SgNext]_vars

\* StrGen under a random source that does not give a digit for b[0] for
\* ever: the activation that keeps its sample is taken if it stays possible
SpecStrGenFair ==
    /\ SgInit /\ [][SgNext]_vars
    /\ WF_vars(StrGenCall)
    /\ SF_vars(StrGenCall /\ sgPc' = "returned")

\* ------------------------------------------------------------------------
\* main and lib.Run
\* ------------------------------------------------------------------------

\* the source text the template gives for cfg
Render(c) == c.Pkg \o <<10>> \o c.Func \o <<10>> \o c.Var \o <<10>> \o c.Key

\* the steps of Run in the order of its statements
RunSteps == <<"ReadInput", "Validate", "CreateOutput", "DecodeKey", "Compress",
              "WriteArtifact", "CreateSource", "ParseTemplate", "Execute">>

Init ==
    /\ CodecIdle /\ StrGenIdle
    /\ pc = "init"
    /\ cfg = NoCfg
    /\ \E i \in InputSamples \cup {NoFile}, o \in {NoFile, OldFile}, s \in {NoFile, OldFile} :
          fs = [p \in Paths |-> IF p = "in.bin" THEN i
                                ELSE IF p = "resource.dat" THEN o
                                ELSE IF p = "compressed.go" THEN s ELSE NoFile]
    /\ fs0 = fs
    /\ data = <<>> /\ key = <<>> /\ com = <<>> /\ trace = <<>>
    /\ failed = "" /\ abortMsg = "" /\ rnd = <<>>

\* log.Fatal(msg) in step
Fatal(step, msg) ==
    /\ pc' = "Aborted"
    /\ abortMsg' = msg
    /\ failed' = IF failed = "" THEN step ELSE failed

\* package initialisation of main: the default Config
MainInit ==
    /\ pc = "init"
    /\ \E r \in RandomKeys :
          /\ rnd' = r
          /\ cfg' = [Pkg |-> PkgMain, Func |-> FuncSample, Input |-> "",
                     Key |-> KeyGen(r), Output |-> "resource.dat",
                     Var |-> <<>>, Src |-> "compressed.go"]
    /\ pc' = "flags"
    /\ UNCHANGED <<fs, fs0, data, key, com, trace, failed, abortMsg, codecVars, sgVars>>

\* main: the flags set Input and Var, then Run(cfg) is called
ParseFlags ==
    /\ pc = "flags"
    /\ \E i \in {"", "in.bin"}, v \in VarSamples :
          cfg' = [cfg EXCEPT !.Input = i, !.Var = v]
    /\ pc' = "ReadInput"
    /\ UNCHANGED <<fs, fs0, data, key, com, trace, failed, abortMsg, rnd, codecVars, sgVars>>

\* Run(cfg) called with a Config whose Key was not made by KeyGen
CallRun ==
    /\ pc = "init"
    /\ \E k \in OtherKeys, i \in {"", "in.bin"}, v \in VarSamples :
          cfg' = [Pkg |-> PkgMain, Func |-> FuncSample, Input |-> i,
                  Key |-> k, Output |-> "resource.dat",
                  Var |-> v, Src |-> "compressed.go"]
    /\ pc' = "ReadInput"
    /\ UNCHANGED <<fs, fs0, data, key, com, trace, failed, abortMsg, rnd, codecVars, sgVars>>

\* data, err := os.ReadFile(cfg.Input)
ReadInput ==
    /\ pc = "ReadInput"
    /\ trace' = Append(trace, "ReadInput")
    /\ IF fs[cfg.Input] = NoFile
       THEN Fatal("ReadInput", "Missing input file") /\ UNCHANGED data
       ELSE /\ data' = fs[cfg.Input]
            /\ pc' = "Validate"
            /\ UNCHANGED <<failed, abortMsg>>
    /\ UNCHANGED <<cfg, fs, fs0, key, com, rnd, codecVars, sgVars>>

\* Validate that logs without stopping (log.Print for log.Fatal)
Validate_NoStop ==
    /\ pc = "Validate"
    /\ trace' = Append(trace, "Validate")
    /\ pc' = "CreateOutput"
    /\ UNCHANGED <<failed, abortMsg>>
    /\ UNCHANGED <<cfg, fs, fs0, data, key, com, rnd, codecVars, sgVars>>

\* if !IsValidVariableName(cfg.Var)
Validate ==
    /\ pc = "Validate"
    /\ trace' = Append(trace, "Validate")
    /\ IF ~IsValidVariableName(cfg.Var)
       THEN Fatal("Validate", "Invalid variable name")
       ELSE pc' = "CreateOutput" /\ UNCHANGED <<failed, abortMsg>>
    /\ UNCHANGED <<cfg, fs, fs0, data, key, com, rnd, codecVars, sgVars>>

\* out, err := os.Create(cfg.Output): the file is created or truncated
CreateOutput ==
    /\ pc = "CreateOutput"
    /\ trace' = Append(trace, "CreateOutput")
    /\ \E ok \in BOOLEAN :
          IF ok
          THEN /\ fs' = [fs EXCEPT ![cfg.Output] = <<>>]
               /\ pc' = "DecodeKey"
               /\ UNCHANGED <<failed, abortMsg>>
          ELSE Fatal("CreateOutput", "Cannot create file") /\ UNCHANGED fs
    /\ UNCHANGED <<cfg, fs0, data, key, com, rnd, codecVars, sgVars>>

\* key, err := base64.RawStdEncoding.DecodeString(cfg.Key)
DecodeKey ==
    /\ pc = "DecodeKey"
    /\ trace' = Append(trace, "DecodeKey")
    /\ LET d == DecodeString(cfg.Key)
       IN  IF d.err
           THEN Fatal("DecodeKey", "Invalid key") /\ UNCHANGED key
           ELSE key' = d.bytes /\ pc' = "Compress" /\ UNCHANGED <<failed, abortMsg>>
    /\ UNCHANGED <<cfg, fs, fs0, data, com, rnd, codecVars, sgVars>>

\* the argument Compress(data, key) of out.Write
CompressStep ==
    /\ pc = "Compress"
    /\ trace' = Append(trace, "Compress")
    /\ com' = Compress(data, key)
    /\ pc' = "WriteArtifact"
    /\ UNCHANGED <<cfg, fs, fs0, data, key, failed, abortMsg, rnd, codecVars, sgVars>>

\* _, _ = out.Write(...); out.Close(): a write that fails leaves n bytes
\* in the file and its error is dropped
WriteArtifact ==
    /\ pc = "WriteArtifact"
    /\ trace' = Append(trace, "WriteArtifact")
    /\ \E n \in {0, Len(com)} :
          /\ fs' = [fs EXCEPT ![cfg.Output] = SubSeq(com, 1, n)]
          /\ failed' = IF n < Len(com) /\ failed = "" THEN "WriteArtifact" ELSE failed
    /\ pc' = "CreateSource"
    /\ UNCHANGED <<cfg, fs0, data, key, com, abortMsg, rnd, codecVars, sgVars>>

\* srcf, err := os.Create(cfg.Src)
CreateSource ==
    /\ pc = "CreateSource"
    /\ trace' = Append(trace, "CreateSource")
    /\ \E ok \in BOOLEAN :
          IF ok
          THEN /\ fs' = [fs EXCEPT ![cfg.Src] = <<>>]
               /\ pc' = "ParseTemplate"
               /\ UNCHANGED <<failed, abortMsg>>
          ELSE Fatal("CreateSource", "Cannot create file") /\ UNCHANGED fs
    /\ UNCHANGED <<cfg, fs0, data, key, com, rnd, codecVars, sgVars>>

\* ParseTemplate that tries again when the parse fails
ParseTemplate_Retry ==
    /\ pc = "ParseTemplate"
    /\ trace' = Append(trace, "ParseTemplate")
    /\ \E ok \in BOOLEAN :
          IF ok \/ Len(trace) > Len(RunSteps)
          THEN pc' = "Execute"
          ELSE pc' = "ParseTemplate"
    /\ UNCHANGED <<failed, abortMsg>>
    /\ UNCHANGED <<cfg, fs, fs0, data, key, com, rnd, codecVars, sgVars>>

\* src, err := template.New(cfg.Src).Parse(tmpl)
ParseTemplate ==
    /\ pc = "ParseTemplate"
    /\ trace' = Append(trace, "ParseTemplate")
    /\ \E ok \in BOOLEAN :
          IF ok
          THEN pc' = "Execute" /\ UNCHANGED <<failed, abortMsg>>
          ELSE Fatal("ParseTemplate", "Cannot parse text")
    /\ UNCHANGED <<cfg, fs, fs0, data, key, com, rnd, codecVars, sgVars>>

\* err = src.Execute(srcf, cfg); on success Run returns
Execute ==
    /\ pc = "Execute"
    /\ trace' = Append(trace, "Execute")
    /\ \E ok \in BOOLEAN :
          IF ok
          THEN /\ fs' = [fs EXCEPT ![cfg.Src] = Render(cfg)]
               /\ pc' = "Done"
               /\ UNCHANGED <<failed, abortMsg>>
          ELSE Fatal("Execute", "Cannot write file") /\ UNCHANGED fs
    /\ UNCHANGED <<cfg, fs0, data, key, com, rnd, codecVars, sgVars>>

Next ==
    \/ MainInit \/ ParseFlags \/ CallRun
    \/ ReadInput \/ Validate \/ CreateOutput \/ DecodeKey \/ CompressStep
    \/ WriteArtifact \/ CreateSource \/ ParseTemplate \/ Execute

Spec == Init /\ [][Next]_vars

\* ------------------------------------------------------------------------
\* Properties
\* ------------------------------------------------------------------------

InRun == pc \notin {"idle", "init", "flags"}

Steps(t) == {t[i] : i \in 1..Len(t)}

IsPrefix(t, u) == Len(t) <= Len(u) /\ SubSeq(u, 1, Len(t)) = t

\* C1: round trip: once Decompress has returned for the key given to
\* Compress, the bytes it returned are the payload.
C1_RoundTrip == (cpc = "decompressed" /\ K1 = K2) => store = P

\* C2: validation gate: in a run of Run whose Var is not a valid identifier
\* the file system stays as it was when Run was entered and the run never
\* gets past validation.
C2_ValidationGate ==
    (InRun /\ ~IsValidVariableName(cfg.Var)) =>
        /\ fs = fs0
        /\ pc \in {"ReadInput", "Validate", "Aborted"}

\* a run stopped by validation on Var "1bad" with both output files
\* there before the run
C2_Witness ==
    /\ pc = "Aborted" /\ abortMsg = "Invalid variable name"
    /\ cfg.Var = <<49, 98, 97, 100>>
    /\ fs0["resource.dat"] = OldFile /\ fs0["compressed.go"] = OldFile

\* C3: configuration errors come before any destructive action: in a run
\* of Run whose Key is not valid unpadded base64, or whose Var is not a
\* valid identifier, the file system stays as it was when Run was entered.
C3_ConfigErrorsFirst ==
    (InRun /\ (DecodeString(cfg.Key).err \/ ~IsValidVariableName(cfg.Var))) =>
        fs = fs0

\* the stage of the claimed order Validate, Read Input, Compress, Write
\* Artifact, Render Template, Write Source that a step of Run belongs to
ClaimedStage(step) ==
    CASE step = "Validate" -> 1
      [] step = "DecodeKey" -> 1
      [] step = "ReadInput" -> 2
      [] step = "Compress" -> 3
      [] step = "CreateOutput" -> 4
      [] step = "WriteArtifact" -> 4
      [] step = "ParseTemplate" -> 5
      [] step = "Execute" -> 5
      [] step = "CreateSource" -> 6

C6_IdentifierValidity ==
    (sgPc = "returned" /\ sgLen >= 1) =>
        /\ Len(sgRet) = sgLen
        /\ \A i \in 1..Len(sgRet) :
              sgRet[i] \in (65..90) \cup (97..122) \cup (48..57) \cup {95}
        /\ sgRet[1] \notin 48..57
        /\ IsValidVariableName(sgRet)

\* StrGen returned a string of two or more characters with a digit after
\* the first character
C6_Witness ==
    /\ sgPc = "returned" /\ sgLen >= 2
    /\ sgRet[2] \in 48..57

C8_KeyEncoding ==
    rnd # <<>> =>
        /\ Len(rnd) = KeyLen
        /\ Len(cfg.Key) = 43
        /\ \A i \in 1..Len(cfg.Key) : B64Val(cfg.Key[i]) # -1
        /\ DecodeString(cfg.Key) = [err |-> FALSE, bytes |-> rnd]
        /\ abortMsg # "Invalid key"
        /\ ("DecodeKey" \in Steps(trace) => key = rnd /\ Len(key) = 32)
        /\ ("Compress" \in Steps(trace) => com = Compress(data, rnd))

\* a run with a KeyGen key that has compressed and reached Done
C8_Witness ==
    /\ rnd = KeyC /\ pc = "Done" /\ key = KeyC /\ "Compress" \in Steps(trace)

\* C9: propagation policy: a call of StrGen (as of Compress and
\* Decompress) never ends in a panic.
C9_NoPanic == sgPc # "panicked"

\* C10: abort without retry: once a step of Run has failed, Run is stopped
\* at that step: the failed step is the last one taken and the run is
\* aborted.
C10_AbortAtFailure ==
    failed # "" => (pc = "Aborted" /\ trace[Len(trace)] = failed)

\* C11: rejection sampling: an activation of StrGen(N), N >= 1, drops its
\* sample and starts a new activation exactly when the first character
\* sampled is a digit, and otherwise returns that very sample; and when the
\* random source does not give a digit first for ever, every call of
\* StrGen(N) returns.
C11_RejectionSampling ==
    /\ [][(sgPc = "call" /\ sgLen >= 1) =>
            /\ Len(sgBuf') = sgLen
            /\ (sgPc' = "call" <=> sgBuf'[1] \in 48..57)
            /\ (sgPc' = "returned" <=> sgBuf'[1] \notin 48..57)
            /\ (sgPc' = "returned" => sgRet' = sgBuf')
            /\ (sgPc' = "call" => sgRet' = sgRet)]_vars
    /\ ((sgPc = "call" /\ sgLen >= 1) ~> (sgPc = "returned"))

\* StrGen returned after at least one dropped sample
C11_Witness ==
    /\ sgPc = "returned" /\ sgDropped /\ sgLen >= 2
    /\ sgRet[1] \notin 48..57

\* C12: complete stream on return: the bytes Compress returned to Run are
\* all the bytes its writer emits for the payload, the final block and the
\* trailer written by Close included, and an artifact written without a
\* write error holds that whole stream.
C12_CompleteStream ==
    /\ ("Compress" \in Steps(trace) => com = ClosedWriter(data, key).buf)
    /\ (("WriteArtifact" \in Steps(trace) /\ failed # "WriteArtifact") =>
            fs[cfg.Output] = ClosedWriter(data, key).buf)

====
